---- MODULE Spec2Model ----
(***************************************************************************)
(* Model of ClearApp (src/clear.cc): the to-do list window, its item list, *)
(* its gesture state machine (FL_PUSH / FL_DRAG / FL_RELEASE, the          *)
(* long-press and single-click timers), the editor widget, the error       *)
(* display and the data file.                                              *)
(*                                                                         *)
(* Strings are sequences of one-character strings (a longer string stands  *)
(* for a run of ordinary characters).  List indices are 0-based as in the  *)
(* source; At(its, i) reads items[i].                                      *)
(*                                                                         *)
(* TodoItem.y_position and ClearApp.drag_offset are only ever written by   *)
(* the source and never read, so they carry no state here.  Every item     *)
(* carries a ghost field uid (its identity) that no handler reads.         *)
(***************************************************************************)
EXTENDS Integers, Sequences, FiniteSets, TLC

(* ------------------------------------------------------------------ *)
(* Program constants                                                   *)
(* ------------------------------------------------------------------ *)
item_height == 60
WinW == 600

(* ------------------------------------------------------------------ *)
(* Bounds of the model                                                 *)
(* ------------------------------------------------------------------ *)
\* Height of the window (the constructor's parameter H).  main() passes 800,
\* which shows 12 items without scrolling; the model uses a window that shows
\* two, so that scrolling happens with MaxItems items.
WinH == 160
\* add_item is not taken when the list already holds MaxItems items.
MaxItems == 3
\* Pending 0.3 s timeouts (long press, single click) the toolkit may hold.
MaxTimeouts == 2
\* x coordinate of every press.
PushX == 300
\* Number of events (user input, timer expiry) of a run.
MaxEvents == 8
\* Number of events of a run on a file system on which a save can fail.
IOEvents == 6

\* Longest item text of the lists that are saved and loaded back.
MaxTextLen == 2

\* Item texts: the text of the items after construction, and what the user
\* may leave in the editor.
InitText == <<"a">>
TypedTexts == {<<>>, <<"a">>}
\* y coordinates of presses (rows 0, 1, 2 of the window) ...
PushYs == {30, 90, 150}
\* ... and of drags and releases.
MoveYs == {30, 55, 90, 150}
\* x coordinates of drags and releases.
MoveXs == {PushX - 200, PushX, PushX + 20, PushX + 200}
\* The right button is only clicked (pressed and released in place).
Buttons == {"left", "right"}
WheelDys == {-1, 1}
\* Characters of the texts that are saved and loaded back: the separator,
\* the escape character, the newline, and the letter n.
FileChars == {"|", "\\", "\n", "n"}
\* Lengths of the lists that are saved and loaded back.
FileListLens == {0, 1, 2}

(* ------------------------------------------------------------------ *)
(* State                                                               *)
(* ------------------------------------------------------------------ *)
VARIABLES
    \* ClearApp fields
    items, selected_index, drag_start_x, drag_start_y, is_dragging, is_swiping,
    is_pulling_down, pull_down_offset, editing_index, editing_text,
    pending_click_index, can_reorder, scroll_offset, error_display,
    \* the Fl_Input widget: visible(), value()
    input_visible, input_value,
    \* the toolkit's pending timeouts: the 0.3 s ones in the order they were
    \* added, and the number of pending hide_error_cb timeouts (3 s)
    timeouts, hide_timers,
    \* the data file (whether it exists, its characters), whether the last
    \* save_to_file succeeded, and whether the file system lets the file be
    \* written
    file_exists, file, save_ok, fs_ok,
    \* the pointer: the button held, Fl::event_clicks(), and the toolkit's
    \* double-click bookkeeping (y of the last left press, -1 once the pointer
    \* has moved or another button was pressed)
    button, event_clicks, fl_click_y,
    \* number of events so far
    events,
    \* the process has been through undefined behaviour and was aborted
    crashed,
    \* ghosts: uid of the item displayed under the pointer at the last left
    \* press (0: none), uid recorded for the pending single click, whether
    \* the long-press timeout has fired since the last press, and what the
    \* first press of a possible double click met (NoPress: none)
    press_uid, click_uid, long_press_fired, first_press,
    \* ghost: uid of the item on which the edit in progress was started
    \* (0: no edit in progress)
    edit_uid,
    \* ghost: uid of the item displayed under the pointer at the most recent
    \* left press, as long as that item is in the list (0: none)
    last_press_uid

vars == <<items, selected_index, drag_start_x, drag_start_y, is_dragging,
          is_swiping, is_pulling_down, pull_down_offset, editing_index,
          editing_text, pending_click_index, can_reorder, scroll_offset,
          error_display, input_visible, input_value, timeouts, hide_timers,
          file_exists, file, save_ok, fs_ok, button, event_clicks, fl_click_y,
          events, crashed, press_uid, click_uid, long_press_fired, first_press,
          edit_uid, last_press_uid>>

(* ------------------------------------------------------------------ *)
(* Helpers                                                             *)
(* ------------------------------------------------------------------ *)
Abs(n) == IF n < 0 THEN -n ELSE n

\* C++ integer division (truncation toward zero), b > 0.
CDiv(a, b) == IF a >= 0 THEN a \div b ELSE -((-a) \div b)

At(its, i) == its[i + 1]

ValidIndex(its, i) == i >= 0 /\ i < Len(its)

\* Variant: pop_back() where erase(begin() + i) is meant.
Erase_Last(its, i) == SubSeq(its, 1, Len(its) - 1)

\* std::vector::erase(begin() + i)
Erase(its, i) == SubSeq(its, 1, i) \o SubSeq(its, i + 2, Len(its))

\* std::vector::insert(begin() + i, it)
Insert(its, i, it) == SubSeq(its, 1, i) \o <<it>> \o SubSeq(its, i + 1, Len(its))

\* Variant: the timeout is never cancelled.
RemoveTimeout_Keep(ts, cb) == ts

\* Fl::remove_timeout(cb): every pending timeout of that callback is removed.
RemoveTimeout(ts, cb) == SelectSeq(ts, LAMBDA t : t # cb)

Uids(its) == {its[k].uid : k \in 1..Len(its)}

\* Ghost identity of a newly constructed item: the least uid not in the list.
FreshUid(its) == CHOOSE u \in 1..(Len(its) + 1) :
                    /\ u \notin Uids(its)
                    /\ \A v \in 1..(Len(its) + 1) : v \notin Uids(its) => u <= v

\* TodoItem(t): completed(false), swipe_offset(0)
TodoItem(t, its) == [text |-> t, completed |-> FALSE, swipe_offset |-> 0,
                     uid |-> FreshUid(its)]

(* ------------------------------------------------------------------ *)
(* The handler state: the variables as one record, plus what the        *)
(* handler did (save_called, ub_hit).  Every method of ClearApp is an   *)
(* operator on this record; button, press_uid and click_uid are carried *)
(* along for the ghost bookkeeping only.  e is what the environment decides during   *)
(* the handler: e.io, the outcome of save_to_file ("ok", "open_fail",   *)
(* "write_fail"); e.ub, the outcome of an out-of-bounds access to items *)
(* ("crash", or "continue": a write that damages nothing the model      *)
(* holds, a read that yields e.junk).                                   *)
(* ------------------------------------------------------------------ *)
St == [items |-> items, selected_index |-> selected_index,
       drag_start_x |-> drag_start_x, drag_start_y |-> drag_start_y,
       is_dragging |-> is_dragging, is_swiping |-> is_swiping,
       is_pulling_down |-> is_pulling_down,
       pull_down_offset |-> pull_down_offset,
       editing_index |-> editing_index, editing_text |-> editing_text,
       pending_click_index |-> pending_click_index,
       can_reorder |-> can_reorder, scroll_offset |-> scroll_offset,
       error_display |-> error_display, input_visible |-> input_visible,
       input_value |-> input_value, timeouts |-> timeouts,
       hide_timers |-> hide_timers, file_exists |-> file_exists,
       file |-> file, save_ok |-> save_ok,
       crashed |-> crashed, button |-> button, press_uid |-> press_uid,
       click_uid |-> click_uid, edit_uid |-> edit_uid,
       last_press_uid |-> last_press_uid,
       save_called |-> FALSE, ub_hit |-> FALSE]

IOOutcomes == IF fs_ok THEN {"ok"} ELSE {"ok", "open_fail", "write_fail"}
JunkTexts == {<<>>, InitText}
JunkOffsets == {0, -200, 200}
Envs == [io : {"ok", "open_fail", "write_fail"}, ub : {"continue", "crash"},
         junk_text : JunkTexts, junk_offset : JunkOffsets]
DefaultEnv == [io |-> "ok", ub |-> "continue", junk_text |-> <<>>,
               junk_offset |-> 0]

\* An out-of-bounds access to items: the process is aborted, or goes on.
UB(s, e) == IF e.ub = "crash"
            THEN [s EXCEPT !.crashed = TRUE, !.ub_hit = TRUE]
            ELSE [s EXCEPT !.ub_hit = TRUE]

(* ------------------------------------------------------------------ *)
(* Persistence                                                         *)
(* ------------------------------------------------------------------ *)
\* Variant: the newline is written as it is.
RECURSIVE escape_text_backslash_only(_)
escape_text_backslash_only(text) ==
    IF text = <<>> THEN <<>>
    ELSE LET c == Head(text) IN
         (IF c = "\\" THEN <<"\\", "\\">> ELSE <<c>>)
             \o escape_text_backslash_only(Tail(text))

RECURSIVE escape_text(_)
escape_text(text) ==
    IF text = <<>> THEN <<>>
    ELSE LET c == Head(text) IN
         (IF c = "\n" THEN <<"\\", "n">>
          ELSE IF c = "\\" THEN <<"\\", "\\">>
          ELSE <<c>>) \o escape_text(Tail(text))

\* The line save_to_file writes for one item (without the trailing newline).
FileLine(item) ==
    <<"0", "|", (IF item.completed THEN "1" ELSE "0"), "|">>
        \o escape_text(item.text)

\* The characters save_to_file writes for a list: one line per item, each
\* ended by a newline.
RECURSIVE FileText(_)
FileText(its) ==
    IF its = <<>> THEN <<>>
    ELSE FileLine(Head(its)) \o <<"\n">> \o FileText(Tail(its))

\* std::getline over the characters of the file: the lines read, the last
\* one also when no newline ends it.  line: the characters of the current
\* line read so far.
RECURSIVE GetLines(_, _)
GetLines(text, line) ==
    IF text = <<>> THEN (IF line = <<>> THEN <<>> ELSE <<line>>)
    ELSE IF Head(text) = "\n"
    THEN <<line>> \o GetLines(Tail(text), <<>>)
    ELSE GetLines(Tail(text), Append(line, Head(text)))

\* Variant: only the escaped newline is decoded.
RECURSIVE unescape_text_newline_only(_)
unescape_text_newline_only(text) ==
    IF text = <<>> THEN <<>>
    ELSE IF Head(text) = "\\" /\ Len(text) >= 2 /\ text[2] = "n"
    THEN <<"\n">> \o unescape_text_newline_only(SubSeq(text, 3, Len(text)))
    ELSE <<Head(text)>> \o unescape_text_newline_only(Tail(text))

RECURSIVE unescape_text(_)
unescape_text(text) ==
    IF text = <<>> THEN <<>>
    ELSE IF Head(text) = "\\" /\ Len(text) >= 2
    THEN IF text[2] = "n"
         THEN <<"\n">> \o unescape_text(SubSeq(text, 3, Len(text)))
         ELSE IF text[2] = "\\"
         THEN <<"\\">> \o unescape_text(SubSeq(text, 3, Len(text)))
         ELSE <<"\\">> \o unescape_text(Tail(text))
    ELSE <<Head(text)>> \o unescape_text(Tail(text))

\* Variant: the last position that holds c.
Find_last(line, c, from) ==
    IF \E k \in from..Len(line) : line[k] = c
    THEN CHOOSE k \in from..Len(line) :
             /\ line[k] = c
             /\ \A j \in (k + 1)..Len(line) : line[j] # c
    ELSE 0

\* std::string::find(c, from): the first position (1-based) at or after
\* from that holds c, 0 for npos.
Find(line, c, from) ==
    IF \E k \in from..Len(line) : line[k] = c
    THEN CHOOSE k \in from..Len(line) :
             /\ line[k] = c
             /\ \A j \in from..(k - 1) : line[j] # c
    ELSE 0

\* Lines 318-338: the items of the lines read, acc being the items so far.
RECURSIVE LoadLines(_, _)
LoadLines(lines, acc) ==
    IF lines = <<>> THEN acc
    ELSE LET line == Head(lines)
             pos1 == Find(line, "|", 1)
             pos2 == IF pos1 = 0 THEN 0 ELSE Find(line, "|", pos1 + 1)
         IN  IF line = <<>> \/ pos1 = 0 \/ pos2 = 0
             THEN LoadLines(Tail(lines), acc)
             ELSE LET completed == SubSeq(line, pos1 + 1, pos2 - 1) = <<"1">>
                      text == unescape_text(SubSeq(line, pos2 + 1, Len(line)))
                      item == [TodoItem(text, acc) EXCEPT !.completed = completed]
                  IN  LoadLines(Tail(lines), Append(acc, item))

\* st: the state left, loaded: the value returned.
load_from_file(s) ==
    IF ~s.file_exists THEN [st |-> s, loaded |-> FALSE]
    ELSE LET loaded_items == LoadLines(GetLines(s.file, <<>>), <<>>) IN
         [st |-> [s EXCEPT !.items = loaded_items],
          loaded |-> loaded_items # <<>>]

\* The texts of the sample items; each is one run of ordinary characters.
SampleTexts ==
    << <<"Welcome to Clear">>, <<"Pull down to add new task">>,
       <<"Click to edit task">>, <<"Double-click to complete">>,
       <<"Swipe right to delete">>, <<"Long press to reorder">> >>

RECURSIVE PushBackAll(_, _)
PushBackAll(its, texts) ==
    IF texts = <<>> THEN its
    ELSE PushBackAll(Append(its, TodoItem(Head(texts), its)), Tail(texts))

add_sample_items(s) == [s EXCEPT !.items = PushBackAll(s.items, SampleTexts)]

\* Variant: the pending hide timer is not cancelled.
show_error_keep_timer(s, message) ==
    [s EXCEPT !.hide_timers = s.hide_timers + 1,
              !.error_display = [message |-> message, is_visible |-> TRUE]]

show_error(s, message) ==
    [s EXCEPT !.hide_timers = 1,
              !.error_display = [message |-> message, is_visible |-> TRUE]]

hide_error(s) ==
    [s EXCEPT !.error_display = [message |-> "", is_visible |-> FALSE],
              !.hide_timers = 0]

\* Variant: a file that cannot be opened is not reported.
save_to_file_silent(s, e) ==
    IF s.crashed THEN s
    ELSE IF e.io = "open_fail"
    THEN [s EXCEPT !.save_ok = FALSE, !.save_called = TRUE]
    ELSE IF e.io = "write_fail"
    THEN show_error([s EXCEPT !.file_exists = TRUE, !.file = <<>>,
                              !.save_ok = FALSE, !.save_called = TRUE],
                    "Error saving file")
    ELSE [s EXCEPT !.file_exists = TRUE, !.file = FileText(s.items),
                   !.save_ok = TRUE, !.save_called = TRUE]

save_to_file(s, e) ==
    IF s.crashed THEN s
    ELSE IF e.io = "open_fail"
    THEN show_error([s EXCEPT !.save_ok = FALSE, !.save_called = TRUE],
                    "Failed to save file")
    ELSE IF e.io = "write_fail"
    THEN show_error([s EXCEPT !.file_exists = TRUE, !.file = <<>>,
                              !.save_ok = FALSE, !.save_called = TRUE],
                    "Error saving file")
    ELSE [s EXCEPT !.file_exists = TRUE, !.file = FileText(s.items),
                   !.save_ok = TRUE, !.save_called = TRUE]

\* Variant: the sample items are not saved.
ClearApp_samples_unsaved(s, e) ==
    LET l == load_from_file(s) IN
    IF ~l.loaded \/ l.st.items = <<>>
    THEN add_sample_items(l.st)
    ELSE l.st

\* The constructor, from the fields as the initialiser list leaves them:
\* load the file; without a loaded item, the sample items, saved.
ClearApp(s, e) ==
    LET l == load_from_file(s) IN
    IF ~l.loaded \/ l.st.items = <<>>
    THEN save_to_file(add_sample_items(l.st), e)
    ELSE l.st

(* ------------------------------------------------------------------ *)
(* Display order, hit testing, scrolling                               *)
(* ------------------------------------------------------------------ *)
\* Variant: the physical order, completed items not moved to the end.
get_sorted_indices_unsorted(its) == [k \in 1..Len(its) |-> k - 1]

get_sorted_indices(its) ==
    LET idx == [k \in 1..Len(its) |-> k - 1]
    IN  SelectSeq(idx, LAMBDA i : ~At(its, i).completed)
            \o SelectSeq(idx, LAMBDA i : At(its, i).completed)

get_item_at_y(s, y) ==
    LET adjusted_y == y + s.scroll_offset IN
    IF adjusted_y < 0 THEN -1
    ELSE LET visual_index == CDiv(adjusted_y, item_height)
             sorted_indices == get_sorted_indices(s.items)
         IN  IF visual_index >= 0 /\ visual_index < Len(sorted_indices)
             THEN sorted_indices[visual_index + 1]
             ELSE -1

get_max_scroll_offset(s) ==
    LET total_height == Len(s.items) * item_height
        visible_height == WinH - 40
        max_scroll == total_height - visible_height
    IN  IF max_scroll > 0 THEN max_scroll ELSE 0

clamp_scroll_offset(s) ==
    LET max_scroll == get_max_scroll_offset(s) IN
    IF s.scroll_offset < 0 THEN [s EXCEPT !.scroll_offset = 0]
    ELSE IF s.scroll_offset > max_scroll
    THEN [s EXCEPT !.scroll_offset = max_scroll]
    ELSE s

\* Position of index i in the display order (-1: not found).
VisualPos(its, i) ==
    LET sorted_indices == get_sorted_indices(its) IN
    IF \E k \in 1..Len(sorted_indices) : sorted_indices[k] = i
    THEN (CHOOSE k \in 1..Len(sorted_indices) : sorted_indices[k] = i) - 1
    ELSE -1

\* draw(): the part that changes state, scrolling the edited item into view.
draw(s) ==
    IF s.crashed THEN s
    ELSE IF ValidIndex(s.items, s.editing_index) /\ s.input_visible
    THEN LET visual_pos == VisualPos(s.items, s.editing_index)
             pull == IF s.is_pulling_down /\ s.pull_down_offset > 0
                     THEN s.pull_down_offset ELSE 0
             row == IF visual_pos >= 0 THEN visual_pos ELSE s.editing_index
             item_y == row * item_height - s.scroll_offset + pull
         IN  IF item_y < 0
             THEN clamp_scroll_offset(
                      [s EXCEPT !.scroll_offset = s.scroll_offset + item_y])
             ELSE IF item_y + item_height > WinH - 40
             THEN clamp_scroll_offset(
                      [s EXCEPT !.scroll_offset =
                           s.scroll_offset + (item_y + item_height) - (WinH - 40)])
             ELSE s
    ELSE s

(* ------------------------------------------------------------------ *)
(* Editing                                                             *)
(* ------------------------------------------------------------------ *)
RECURSIVE start_editing(_, _, _), finish_editing(_, _)

\* start_editing ends with Fl::check(); Fl::flush(), which paints the window:
\* draw() runs before start_editing returns.
start_editing(s, index, e) ==
    IF s.crashed \/ ~ValidIndex(s.items, index) THEN s
    ELSE LET s1 == IF s.editing_index >= 0 /\ s.editing_index # index
                   THEN finish_editing(s, e) ELSE s
         IN  IF s1.crashed THEN s1
             ELSE IF ~ValidIndex(s1.items, index)
             THEN \* finish_editing erased an item: items[index] is out of bounds
                  LET s2 == UB([s1 EXCEPT !.editing_index = index,
                                          !.edit_uid = 0], e) IN
                  IF s2.crashed THEN s2
                  ELSE draw([s2 EXCEPT !.editing_text = e.junk_text,
                                       !.input_value = e.junk_text,
                                       !.input_visible = TRUE])
             ELSE draw([s1 EXCEPT !.editing_index = index,
                                  !.edit_uid = At(s1.items, index).uid,
                                  !.editing_text = At(s1.items, index).text,
                                  !.input_value = At(s1.items, index).text,
                                  !.input_visible = TRUE])

finish_editing(s, e) ==
    IF s.crashed THEN s
    ELSE IF ValidIndex(s.items, s.editing_index)
    THEN LET old_editing_text == IF s.input_visible THEN s.input_value
                                 ELSE s.editing_text
             old_editing_index == s.editing_index
             s1 == [s EXCEPT !.editing_text = old_editing_text,
                             !.input_visible = FALSE]
         IN  IF old_editing_text = <<>>
             THEN LET erased == Erase(s1.items, old_editing_index) IN
                  IF erased = <<>>
                  THEN start_editing(
                           [s1 EXCEPT !.items = <<TodoItem(<<>>, <<>>)>>,
                                      !.editing_index = -1,
                                      !.editing_text = <<>>], 0, e)
                  ELSE [s1 EXCEPT !.items = erased,
                                  !.editing_index = -1,
                                  !.editing_text = <<>>]
             ELSE save_to_file(
                      [s1 EXCEPT !.items[old_editing_index + 1].text =
                                     old_editing_text,
                                 !.editing_index = -1,
                                 !.editing_text = <<>>], e)
    ELSE s

(* ------------------------------------------------------------------ *)
(* List operations                                                     *)
(* ------------------------------------------------------------------ *)
ResetSwipeOffsets(its) == [k \in 1..Len(its) |-> [its[k] EXCEPT !.swipe_offset = 0]]

\* Variant: the two items are exchanged.
reorder_items_swap(s, from_index, to_index, e) ==
    IF s.crashed THEN s
    ELSE IF ~ValidIndex(s.items, from_index) \/ ~ValidIndex(s.items, to_index)
            \/ from_index = to_index
    THEN s
    ELSE save_to_file(
             [s EXCEPT !.items[from_index + 1] = At(s.items, to_index),
                       !.items[to_index + 1] = At(s.items, from_index)], e)

reorder_items(s, from_index, to_index, e) ==
    IF s.crashed THEN s
    ELSE IF ~ValidIndex(s.items, from_index) \/ ~ValidIndex(s.items, to_index)
            \/ from_index = to_index
    THEN s
    ELSE LET item == At(s.items, from_index) IN
         save_to_file(
             [s EXCEPT !.items = Insert(Erase(s.items, from_index), to_index, item)],
             e)

\* Variant: push_back where insert(begin()) is meant.
add_item_append(s, text, e) ==
    IF s.crashed THEN s
    ELSE LET s1 == IF s.editing_index >= 0 THEN finish_editing(s, e) ELSE s
             last == Len(s1.items)
             s2 == [s1 EXCEPT !.is_pulling_down = FALSE,
                              !.pull_down_offset = 0,
                              !.scroll_offset = 0,
                              !.items = Append(s1.items, TodoItem(text, s1.items)),
                              !.editing_index = last,
                              !.editing_text = text]
         IN  save_to_file(start_editing(s2, last, e), e)

add_item(s, text, e) ==
    IF s.crashed THEN s
    ELSE LET s1 == IF s.editing_index >= 0 THEN finish_editing(s, e) ELSE s
             s2 == [s1 EXCEPT !.is_pulling_down = FALSE,
                              !.pull_down_offset = 0,
                              !.scroll_offset = 0,
                              !.items = <<TodoItem(text, s1.items)>> \o s1.items,
                              !.editing_index = 0,
                              !.editing_text = text]
         IN  save_to_file(start_editing(s2, 0, e), e)

\* Variant: an emptied list is not refilled.
delete_item_no_refill(s, index, e) ==
    IF s.crashed THEN s
    ELSE IF ValidIndex(s.items, index)
    THEN LET erased == Erase(s.items, index) IN
         save_to_file(clamp_scroll_offset(
                          [s EXCEPT !.items = ResetSwipeOffsets(erased),
                                    !.selected_index =
                                        IF s.selected_index >= Len(erased)
                                        THEN -1 ELSE s.selected_index]), e)
    ELSE s

delete_item(s, index, e) ==
    IF s.crashed THEN s
    ELSE IF ValidIndex(s.items, index)
    THEN LET erased == Erase(s.items, index)
             s1 == clamp_scroll_offset(
                       [s EXCEPT !.items = ResetSwipeOffsets(erased),
                                 !.selected_index =
                                     IF s.selected_index >= Len(erased)
                                     THEN -1 ELSE s.selected_index])
             s2 == IF s1.items = <<>>
                   THEN start_editing(
                            [s1 EXCEPT !.items = <<TodoItem(<<>>, <<>>)>>,
                                       !.editing_index = 0,
                                       !.editing_text = <<>>,
                                       !.scroll_offset = 0], 0, e)
                   ELSE s1
         IN  save_to_file(s2, e)
    ELSE s

\* Variant: the flag is set, not inverted.
toggle_complete_set(s, index, e) ==
    IF s.crashed THEN s
    ELSE IF ValidIndex(s.items, index)
    THEN save_to_file([s EXCEPT !.items[index + 1].completed = TRUE], e)
    ELSE s

toggle_complete(s, index, e) ==
    IF s.crashed THEN s
    ELSE IF ValidIndex(s.items, index)
    THEN save_to_file(
             [s EXCEPT !.items[index + 1].completed = ~At(s.items, index).completed],
             e)
    ELSE s

\* items[index].swipe_offset = v
SetSwipeOffset(s, index, v, e) ==
    IF s.crashed THEN s
    ELSE IF ValidIndex(s.items, index)
    THEN [s EXCEPT !.items[index + 1].swipe_offset = v]
    ELSE UB(s, e)

(* ------------------------------------------------------------------ *)
(* handle(FL_PUSH)                                                     *)
(* ------------------------------------------------------------------ *)
handle_push(s, event_button, mx, my, e) ==
    LET s1 == IF s.editing_index >= 0 /\ event_button = "left"
                 /\ get_item_at_y(s, my) # s.editing_index
              THEN finish_editing(s, e) ELSE s
        s2 == [s1 EXCEPT !.items = ResetSwipeOffsets(s1.items)]
        index == get_item_at_y(s2, my)
        in_pull_zone == my < 0 /\ index < 0
    IN  IF s1.crashed THEN s1
        ELSE IF index >= 0
        THEN IF event_button = "left"
             THEN [s2 EXCEPT !.selected_index = index,
                             !.is_dragging = FALSE,
                             !.is_swiping = FALSE,
                             !.is_pulling_down = FALSE,
                             !.can_reorder = FALSE,
                             !.drag_start_y = my,
                             !.drag_start_x = mx,
                             !.pending_click_index = -1,
                             !.timeouts = Append(s2.timeouts, "long_press")]
             ELSE IF event_button = "right"
             THEN delete_item(IF s2.editing_index >= 0
                              THEN finish_editing(s2, e) ELSE s2, index, e)
             ELSE s2
        ELSE IF in_pull_zone /\ event_button = "left"
        THEN [s2 EXCEPT !.is_dragging = TRUE,
                        !.is_pulling_down = TRUE,
                        !.drag_start_y = my,
                        !.drag_start_x = mx,
                        !.pull_down_offset = 0,
                        !.selected_index = -1]
        ELSE s2

(* ------------------------------------------------------------------ *)
(* handle(FL_DRAG)                                                     *)
(* ------------------------------------------------------------------ *)
\* Lines 843-874: what kind of movement this is.  returned: the handler
\* returned from inside this part.
DragClassify(s, dx, dy, e) ==
    IF ~s.can_reorder /\ dy > 20 /\ Abs(dx) < 30
    THEN [st |-> [s EXCEPT !.timeouts = RemoveTimeout(s.timeouts, "long_press"),
                           !.is_pulling_down = TRUE,
                           !.is_dragging = TRUE,
                           !.selected_index = -1,
                           !.pull_down_offset = dy],
          returned |-> FALSE]
    ELSE IF ~s.can_reorder
    THEN IF Abs(dx) > 10 /\ Abs(dx) > Abs(dy)
         THEN [st |-> SetSwipeOffset([s EXCEPT !.is_swiping = TRUE,
                                               !.is_dragging = TRUE],
                                     s.selected_index, dx, e),
               returned |-> FALSE]
         ELSE IF Abs(dx) > 5 \/ Abs(dy) > 5
         THEN [st |-> [s EXCEPT !.timeouts = RemoveTimeout(s.timeouts, "long_press"),
                                !.can_reorder = FALSE],
               returned |-> TRUE]
         ELSE [st |-> s, returned |-> TRUE]
    ELSE [st |-> s, returned |-> FALSE]

\* Lines 876-903: swipe or reorder.
DragTail(s, dx, dy, my, e) ==
    IF s.crashed THEN s
    ELSE IF ~s.can_reorder /\ ~s.is_swiping THEN s
    ELSE LET s1 == IF ~s.is_swiping THEN [s EXCEPT !.is_dragging = TRUE] ELSE s
             s2 == IF ~s1.is_swiping /\ Abs(dx) > 10
                   THEN [s1 EXCEPT !.is_swiping = TRUE] ELSE s1
         IN  IF s2.is_swiping
             THEN SetSwipeOffset(s2, s2.selected_index, dx, e)
             ELSE IF s2.can_reorder /\ Abs(dy) > 10
             THEN LET new_index == get_item_at_y(s2, my) IN
                  IF new_index >= 0 /\ new_index # s2.selected_index
                  THEN [reorder_items(s2, s2.selected_index, new_index, e)
                           EXCEPT !.selected_index = new_index]
                  ELSE s2
             ELSE s2

handle_drag(s, mx, my, e) ==
    LET dx == mx - s.drag_start_x
        dy == my - s.drag_start_y
    IN  IF s.is_pulling_down
        THEN IF dy > 0
             THEN [s EXCEPT !.pull_down_offset =
                       IF 2 * dy > 3 * item_height
                       THEN CDiv(3 * item_height, 2) ELSE dy]
             ELSE IF dy < -5
             THEN [s EXCEPT !.pull_down_offset = 0]
             ELSE s
        ELSE IF s.selected_index >= 0
        THEN LET c == DragClassify(s, dx, dy, e) IN
             IF c.returned THEN c.st ELSE DragTail(c.st, dx, dy, my, e)
        ELSE s

(* ------------------------------------------------------------------ *)
(* handle(FL_RELEASE)                                                  *)
(* ------------------------------------------------------------------ *)
\* Lines 922-940 and 946-963 (the same code twice): the end of a swipe.
ReleaseSwipeOn(s, swipe_offset, e) ==
    IF 10 * swipe_offset < -(3 * WinW)
    THEN delete_item(IF s.editing_index = s.selected_index
                     THEN [s EXCEPT !.editing_index = -1, !.editing_text = <<>>]
                     ELSE s,
                     s.selected_index, e)
    ELSE IF 10 * swipe_offset > 3 * WinW
    THEN LET t == toggle_complete(s, s.selected_index, e) IN
         SetSwipeOffset(t, t.selected_index, 0, e)
    ELSE SetSwipeOffset(s, s.selected_index, 0, e)

ReleaseSwipe(s, e) ==
    IF ValidIndex(s.items, s.selected_index)
    THEN ReleaseSwipeOn(s, At(s.items, s.selected_index).swipe_offset, e)
    ELSE LET s1 == UB(s, e) IN
         IF s1.crashed THEN s1 ELSE ReleaseSwipeOn(s1, e.junk_offset, e)

\* Lines 964-986: a click.  click_uid is ghost.
ReleaseClick(s, clicks, e) ==
    IF clicks > 0
    THEN LET s1 == IF s.pending_click_index >= 0
                   THEN [s EXCEPT !.timeouts = RemoveTimeout(s.timeouts, "click"),
                                  !.pending_click_index = -1]
                   ELSE s
         IN  IF s1.editing_index < 0
             THEN toggle_complete(s1, s1.selected_index, e)
             ELSE s1
    ELSE LET s1 == IF s.pending_click_index >= 0
                   THEN [s EXCEPT !.timeouts = RemoveTimeout(s.timeouts, "click")]
                   ELSE s
         IN  [s1 EXCEPT !.pending_click_index = s1.selected_index,
                        !.timeouts = Append(s1.timeouts, "click"),
                        !.click_uid = IF s1.button = "left"
                                      THEN s1.press_uid ELSE 0]

handle_release(s, mx, my, clicks, e) ==
    LET s0 == [s EXCEPT !.timeouts = RemoveTimeout(s.timeouts, "long_press")]
        dx == mx - s.drag_start_x
        dy == my - s.drag_start_y
        s1 == IF s0.is_pulling_down
              THEN IF 10 * s0.pull_down_offset > 6 * item_height
                   THEN add_item(s0, <<>>, e)
                   ELSE [s0 EXCEPT !.pull_down_offset = 0,
                                   !.is_pulling_down = FALSE]
              ELSE IF s0.is_dragging /\ s0.selected_index >= 0 /\ s0.can_reorder
              THEN IF s0.is_swiping THEN ReleaseSwipe(s0, e) ELSE s0
              ELSE IF s0.selected_index >= 0
              THEN IF s0.is_swiping
                   THEN ReleaseSwipe(s0, e)
                   ELSE IF Abs(dx) < 5 /\ Abs(dy) < 5 /\ ~s0.can_reorder
                   THEN ReleaseClick(s0, clicks, e)
                   ELSE s0
              ELSE s0
    IN  IF s1.crashed THEN s1
        ELSE [s1 EXCEPT !.is_dragging = FALSE,
                        !.is_swiping = FALSE,
                        !.can_reorder = FALSE]

(* ------------------------------------------------------------------ *)
(* handle(FL_MOUSEWHEEL), handle(FL_KEYBOARD), the editor's callback    *)
(* ------------------------------------------------------------------ *)
handle_mousewheel(s, dy) ==
    IF dy # 0
    THEN clamp_scroll_offset(
             [s EXCEPT !.scroll_offset = s.scroll_offset - dy * item_height])
    ELSE s

handle_keyboard(s, key, e) ==
    IF s.editing_index >= 0 /\ s.input_visible
    THEN IF key = "Escape"
         THEN LET current_text == s.input_value
                  erase == current_text = <<>> /\ s.editing_index < Len(s.items)
                  erased == IF erase THEN Erase(s.items, s.editing_index)
                            ELSE s.items
              IN  IF erase /\ erased = <<>>
                  THEN start_editing(
                           [s EXCEPT !.items = <<TodoItem(<<>>, <<>>)>>,
                                     !.editing_index = 0,
                                     !.editing_text = <<>>], 0, e)
                  ELSE save_to_file([s EXCEPT !.items = erased,
                                              !.input_visible = FALSE,
                                              !.editing_index = -1,
                                              !.editing_text = <<>>], e)
         ELSE s
    ELSE IF key = "Delete" /\ s.selected_index >= 0
    THEN [delete_item(s, s.selected_index, e) EXCEPT !.selected_index = -1]
    ELSE s

input_callback(s, key, e) ==
    IF ~s.input_visible THEN s
    ELSE IF key = "Enter" THEN finish_editing(s, e)
    ELSE s

(* ------------------------------------------------------------------ *)
(* Timer callbacks                                                     *)
(* ------------------------------------------------------------------ *)
handle_single_click(s, index, e) ==
    IF ValidIndex(s.items, index) /\ s.pending_click_index = index
    THEN [(IF s.editing_index # index THEN start_editing(s, index, e) ELSE s)
             EXCEPT !.pending_click_index = -1]
    ELSE s

click_timeout_cb(s, e) ==
    IF s.pending_click_index >= 0
    THEN handle_single_click(s, s.pending_click_index, e)
    ELSE s

enable_reorder(s) ==
    IF s.selected_index >= 0
    THEN [s EXCEPT !.can_reorder = TRUE, !.is_dragging = TRUE]
    ELSE s

long_press_timeout_cb(s) == enable_reorder(s)

hide_error_cb(s) == hide_error(s)

(* ------------------------------------------------------------------ *)
(* The state machine                                                   *)
(* ------------------------------------------------------------------ *)
NoPress == [uid |-> 0, completed |-> FALSE, editing |-> FALSE]

\* drag_start_x and drag_start_y are not initialised by the constructor.
UninitXs == {0, PushX}
UninitYs == {0, 30}

\* The list after construction: two items, neither completed.
InitialItems ==
    << [text |-> InitText, completed |-> FALSE, swipe_offset |-> 0, uid |-> 1],
       [text |-> InitText, completed |-> FALSE, swipe_offset |-> 0, uid |-> 2] >>

\* The running program after start-up on a saved list of two items.
Started ==
    /\ items = InitialItems
    /\ selected_index = -1
    /\ drag_start_x \in UninitXs
    /\ drag_start_y \in UninitYs
    /\ is_dragging = FALSE
    /\ is_swiping = FALSE
    /\ is_pulling_down = FALSE
    /\ pull_down_offset = 0
    /\ editing_index = -1
    /\ editing_text = <<>>
    /\ pending_click_index = -1
    /\ can_reorder = FALSE
    /\ scroll_offset = 0
    /\ error_display = [message |-> "", is_visible |-> FALSE]
    /\ input_visible = FALSE
    /\ input_value = <<>>
    /\ timeouts = <<>>
    /\ hide_timers = 0
    /\ file_exists = TRUE
    /\ file = FileText(InitialItems)
    /\ save_ok = TRUE
    /\ button = "none"
    /\ event_clicks = 0
    /\ fl_click_y = -1
    /\ crashed = FALSE
    /\ press_uid = 0
    /\ click_uid = 0
    /\ long_press_fired = FALSE
    /\ first_press = NoPress
    /\ edit_uid = 0
    /\ last_press_uid = 0

Init == Started /\ fs_ok = TRUE /\ events = 0

\* What a handler can leave behind: the environment's choices are taken only
\* where the handler meets them (a save, an out-of-bounds access).
Outcomes(H(_)) ==
    LET r == H(DefaultEnv) IN
    IF ~r.ub_hit /\ (~r.save_called \/ IOOutcomes = {"ok"})
    THEN {r}
    ELSE {H(e) : e \in {x \in Envs :
                     /\ x.io \in IOOutcomes
                     /\ r.save_called \/ x.io = "ok"
                     /\ r.ub_hit \/ (/\ x.ub = "continue"
                                     /\ x.junk_text = DefaultEnv.junk_text
                                     /\ x.junk_offset = DefaultEnv.junk_offset)}}

\* The handler has returned: the window is painted before the next event
\* (redraw() was asked for, Fl::run flushes), and the fields take their values.
Apply(h) ==
    LET r == draw(h) IN
    /\ items' = r.items
    /\ selected_index' = r.selected_index
    /\ drag_start_x' = r.drag_start_x
    /\ drag_start_y' = r.drag_start_y
    /\ is_dragging' = r.is_dragging
    /\ is_swiping' = r.is_swiping
    /\ is_pulling_down' = r.is_pulling_down
    /\ pull_down_offset' = r.pull_down_offset
    /\ editing_index' = r.editing_index
    /\ editing_text' = r.editing_text
    /\ pending_click_index' = r.pending_click_index
    /\ can_reorder' = r.can_reorder
    /\ scroll_offset' = r.scroll_offset
    /\ error_display' = r.error_display
    /\ input_visible' = r.input_visible
    /\ input_value' = r.input_value
    /\ timeouts' = r.timeouts
    /\ hide_timers' = r.hide_timers
    /\ file_exists' = r.file_exists
    /\ file' = r.file
    /\ save_ok' = r.save_ok
    /\ crashed' = r.crashed
    /\ click_uid' = r.click_uid
    /\ edit_uid' = IF r.editing_index < 0 THEN 0 ELSE r.edit_uid
    /\ last_press_uid' =
           IF \E k \in 1..Len(r.items) : r.items[k].uid = r.last_press_uid
           THEN r.last_press_uid ELSE 0

\* An event is delivered to the running program.
Event == /\ ~crashed
         /\ events < MaxEvents
         /\ events' = events + 1
         /\ UNCHANGED fs_ok

\* uid of the item displayed at y (0: none).
UidAtY(y) ==
    LET i == get_item_at_y(St, y) IN
    IF i >= 0 THEN At(items, i).uid ELSE 0

\* What a left press at y meets: the item displayed there, its completed
\* flag, and whether an edit is in progress.
PressMet(y) ==
    LET i == get_item_at_y(St, y) IN
    IF i >= 0
    THEN [uid |-> At(items, i).uid, completed |-> At(items, i).completed,
          editing |-> editing_index >= 0]
    ELSE NoPress

\* The toolkit forgets a possible double click once the pointer has moved.
Moved(mx, my) == mx # PushX \/ my # fl_click_y

Push(b, my) ==
    /\ Event
    /\ button = "none"
    /\ Len(timeouts) < MaxTimeouts
    /\ \E r \in Outcomes(LAMBDA e :
                    handle_push([St EXCEPT !.last_press_uid =
                                     IF b = "left" THEN UidAtY(my)
                                     ELSE last_press_uid],
                                b, PushX, my, e)) :
          Apply(r)
    /\ button' = b
    /\ event_clicks' \in (IF b = "left" /\ fl_click_y = my THEN {0, 1} ELSE {0})
    /\ fl_click_y' = IF b = "left" THEN my ELSE -1
    /\ press_uid' = IF b = "left" THEN UidAtY(my) ELSE 0
    /\ long_press_fired' = FALSE
    /\ first_press' = IF b # "left" THEN NoPress
                      ELSE IF event_clicks' > 0 THEN first_press
                      ELSE PressMet(my)

Drag(mx, my) ==
    /\ Event
    /\ button = "left"
    /\ \E r \in Outcomes(LAMBDA e : handle_drag(St, mx, my, e)) : Apply(r)
    /\ fl_click_y' = IF Moved(mx, my) THEN -1 ELSE fl_click_y
    /\ first_press' = IF Moved(mx, my) THEN NoPress ELSE first_press
    /\ UNCHANGED <<button, event_clicks, press_uid, long_press_fired>>

Release(mx, my) ==
    /\ Event
    /\ button # "none"
    /\ button = "right" => mx = PushX /\ my = drag_start_y
    /\ Len(RemoveTimeout(timeouts, "long_press")) < MaxTimeouts
    /\ ~(/\ is_pulling_down
         /\ 10 * pull_down_offset > 6 * item_height
         /\ Len(items) >= MaxItems)
    /\ \E r \in Outcomes(LAMBDA e : handle_release(St, mx, my, event_clicks, e)) :
          Apply(r)
    /\ button' = "none"
    /\ event_clicks' = 0
    /\ fl_click_y' = IF Moved(mx, my) THEN -1 ELSE fl_click_y
    /\ press_uid' = 0
    /\ long_press_fired' = FALSE
    /\ first_press' = IF Moved(mx, my) THEN NoPress ELSE first_press

MouseWheel(dy) ==
    /\ Event
    /\ Apply(handle_mousewheel(St, dy))
    /\ UNCHANGED <<button, event_clicks, fl_click_y, press_uid, long_press_fired,
                   first_press>>

\* Escape reaches the window while the editor has the focus.
KeyEscape ==
    /\ Event
    /\ editing_index >= 0 /\ input_visible
    /\ \E r \in Outcomes(LAMBDA e : handle_keyboard(St, "Escape", e)) : Apply(r)
    /\ UNCHANGED <<button, event_clicks, fl_click_y, press_uid, long_press_fired,
                   first_press>>

KeyDelete ==
    /\ Event
    /\ \E r \in Outcomes(LAMBDA e : handle_keyboard(St, "Delete", e)) : Apply(r)
    /\ UNCHANGED <<button, event_clicks, fl_click_y, press_uid, long_press_fired,
                   first_press>>

\* Enter in the editor: the widget calls input_callback (FL_WHEN_ENTER_KEY).
KeyEnter ==
    /\ Event
    /\ input_visible
    /\ \E r \in Outcomes(LAMBDA e : input_callback(St, "Enter", e)) : Apply(r)
    /\ UNCHANGED <<button, event_clicks, fl_click_y, press_uid, long_press_fired,
                   first_press>>

\* The user edits the text in the editor: the widget's value changes and
\* input_callback runs with another key than Enter.
TypeText(t) ==
    /\ Event
    /\ input_visible
    /\ t # input_value
    /\ Apply(input_callback([St EXCEPT !.input_value = t], "other", DefaultEnv))
    /\ UNCHANGED <<button, event_clicks, fl_click_y, press_uid, long_press_fired,
                   first_press>>

\* The oldest 0.3 s timeout expires.
LongPressTimeout ==
    /\ Event
    /\ timeouts # <<>> /\ Head(timeouts) = "long_press"
    /\ Apply(long_press_timeout_cb([St EXCEPT !.timeouts = Tail(timeouts)]))
    /\ long_press_fired' = TRUE
    /\ UNCHANGED <<button, event_clicks, fl_click_y, press_uid, first_press>>

ClickTimeout ==
    /\ Event
    /\ timeouts # <<>> /\ Head(timeouts) = "click"
    /\ \E r \in Outcomes(LAMBDA e :
                    click_timeout_cb([St EXCEPT !.timeouts = Tail(timeouts)], e)) :
          Apply(r)
    /\ UNCHANGED <<button, event_clicks, fl_click_y, press_uid, long_press_fired,
                   first_press>>

\* The 3 s timeout of the error message expires.
HideErrorTimeout ==
    /\ ~crashed
    /\ hide_timers > 0
    /\ Apply(hide_error_cb([St EXCEPT !.hide_timers = hide_timers - 1]))
    /\ UNCHANGED <<button, event_clicks, fl_click_y, press_uid, long_press_fired,
                   first_press, events, fs_ok>>

PushEv == \E b \in Buttons, my \in PushYs : Push(b, my)
DragEv == \E mx \in MoveXs, my \in MoveYs : Drag(mx, my)
ReleaseEv == \E mx \in MoveXs, my \in MoveYs : Release(mx, my)
MouseWheelEv == \E dy \in WheelDys : MouseWheel(dy)
TypeTextEv == \E t \in TypedTexts : TypeText(t)

\* The program with a file system that lets every save succeed.
Next ==
    \/ PushEv
    \/ DragEv
    \/ ReleaseEv
    \/ MouseWheelEv
    \/ KeyEscape
    \/ KeyDelete
    \/ KeyEnter
    \/ TypeTextEv
    \/ LongPressTimeout
    \/ ClickTimeout

Spec == Init /\ [][Next]_vars

\* The program with a file system on which a save can fail; the event loop
\* runs the timeout of the error message when it is due.
InitIO == Started /\ fs_ok = FALSE /\ events = MaxEvents - IOEvents

NextIO == Next \/ HideErrorTimeout

SpecIO == InitIO /\ [][NextIO]_vars /\ WF_vars(HideErrorTimeout)

(* ------------------------------------------------------------------ *)
(* Saving and starting up, for lists of arbitrary texts                 *)
(* ------------------------------------------------------------------ *)
FileTexts == UNION {[1..n -> FileChars] : n \in 0..MaxTextLen}

\* Texts of at most one character.
ShortTexts == {<<>>} \cup {<<c>> : c \in FileChars}

\* The lists saved and loaded back: the first item has any of the texts,
\* the items after it a short one.
FileLists ==
    UNION {{[k \in 1..n |-> [text |-> f[k].text, completed |-> f[k].completed,
                             swipe_offset |-> 0, uid |-> k]] :
               f \in {g \in [1..n -> [text : FileTexts, completed : BOOLEAN]] :
                         \A k \in 2..n : g[k].text \in ShortTexts}} :
           n \in FileListLens}

\* A running program between two interactions, on a file system that lets
\* the file be written.
Quiescent ==
    /\ selected_index = -1
    /\ drag_start_x = 0
    /\ drag_start_y = 0
    /\ is_dragging = FALSE
    /\ is_swiping = FALSE
    /\ is_pulling_down = FALSE
    /\ pull_down_offset = 0
    /\ editing_index = -1
    /\ editing_text = <<>>
    /\ pending_click_index = -1
    /\ can_reorder = FALSE
    /\ scroll_offset = 0
    /\ error_display = [message |-> "", is_visible |-> FALSE]
    /\ input_visible = FALSE
    /\ input_value = <<>>
    /\ timeouts = <<>>
    /\ hide_timers = 0
    /\ save_ok = TRUE
    /\ fs_ok = TRUE
    /\ button = "none"
    /\ event_clicks = 0
    /\ fl_click_y = -1
    /\ events = 0
    /\ crashed = FALSE
    /\ press_uid = 0
    /\ click_uid = 0
    /\ long_press_fired = FALSE
    /\ first_press = NoPress
    /\ edit_uid = 0
    /\ last_press_uid = 0

\* A running program with any of these lists that has not saved yet; the
\* file is missing or empty.
InitFile ==
    /\ items \in FileLists
    /\ file_exists \in BOOLEAN
    /\ file = <<>>
    /\ Quiescent

\* The fields as the constructor's initialiser list leaves them, in a new
\* process that finds the file as it is.
Initialised(x, y) ==
    [St EXCEPT !.items = <<>>, !.selected_index = -1,
               !.drag_start_x = x, !.drag_start_y = y,
               !.is_dragging = FALSE, !.is_swiping = FALSE,
               !.is_pulling_down = FALSE, !.pull_down_offset = 0,
               !.editing_index = -1, !.editing_text = <<>>,
               !.pending_click_index = -1, !.can_reorder = FALSE,
               !.scroll_offset = 0,
               !.error_display = [message |-> "", is_visible |-> FALSE],
               !.input_visible = FALSE, !.input_value = <<>>,
               !.timeouts = <<>>, !.hide_timers = 0,
               !.save_ok = TRUE, !.crashed = FALSE, !.button = "none",
               !.press_uid = 0, !.click_uid = 0, !.edit_uid = 0,
               !.last_press_uid = 0]

\* The program is started (again): the constructor runs.
Startup ==
    /\ \E x \in UninitXs, y \in UninitYs :
          \E r \in Outcomes(LAMBDA e : ClearApp(Initialised(x, y), e)) :
              Apply(r)
    /\ button' = "none"
    /\ event_clicks' = 0
    /\ fl_click_y' = -1
    /\ press_uid' = 0
    /\ long_press_fired' = FALSE
    /\ first_press' = NoPress
    /\ UNCHANGED <<events, fs_ok>>

\* The running program saves its list.
SaveList ==
    /\ ~crashed
    /\ \E r \in Outcomes(LAMBDA e : save_to_file(St, e)) : Apply(r)
    /\ UNCHANGED <<button, event_clicks, fl_click_y, press_uid,
                   long_press_fired, first_press, events, fs_ok>>

NextFile == Startup \/ SaveList

SpecFile == InitFile /\ [][NextFile]_vars

(* ------------------------------------------------------------------ *)
(* Starting up on a file that was not written by save_to_file          *)
(* ------------------------------------------------------------------ *)
\* Lines that yield no item: empty, without separator, with one separator.
SkippedLines ==
    {[raw |-> x, item |-> <<>>] :
        x \in {<<>>, <<"a">>, <<"|">>, <<"0", "|", "a">>}}

\* What follows the second separator, and the text it stands for.
Rests ==
    {[raw |-> <<>>, text |-> <<>>],
     [raw |-> <<"a">>, text |-> <<"a">>],
     [raw |-> <<"a", "|", "b">>, text |-> <<"a", "|", "b">>],
     [raw |-> <<"\\", "n">>, text |-> <<"\n">>],
     [raw |-> <<"\\", "\\">>, text |-> <<"\\">>],
     [raw |-> <<"\\", "a">>, text |-> <<"\\", "a">>]}

\* First and second fields.
Firsts == {<<>>, <<"7">>}
Seconds == {<<"1">>, <<"0">>, <<>>, <<"1", "1">>}

\* Lines that yield an item.
ItemLines ==
    {[raw |-> f \o <<"|">> \o s \o <<"|">> \o r.raw,
      item |-> <<[text |-> r.text, completed |-> (s = <<"1">>)]>>] :
        f \in Firsts, s \in Seconds, r \in Rests}

\* Second lines: a few of each kind.
ShortLines ==
    {l \in SkippedLines : Len(l.raw) <= 1}
    \cup {l \in ItemLines : Len(l.raw) <= 3}

\* Files of up to two lines, the last one with or without its newline, and
\* the items they stand for.
RawFiles ==
    {[file |-> <<>>, items |-> <<>>]}
    \cup {[file |-> l.raw \o nl, items |-> l.item] :
             l \in SkippedLines \cup ItemLines, nl \in {<<>>, <<"\n">>}}
    \cup {[file |-> l.raw \o <<"\n">> \o m.raw \o nl,
           items |-> l.item \o m.item] :
             l \in SkippedLines \cup ItemLines, m \in ShortLines,
             nl \in {<<>>, <<"\n">>}}

\* A running program, with or without items, whose file has been replaced
\* by one of these files.
InitLoad ==
    /\ items \in {<<>>, InitialItems}
    /\ file_exists = TRUE
    /\ file \in {row.file : row \in RawFiles}
    /\ Quiescent

NextLoad == Startup

SpecLoad == InitLoad /\ [][NextLoad]_vars


\* ------------------------------------------------------------------
\* Properties
\* ------------------------------------------------------------------

\* The step is a release: only handle(FL_RELEASE) ends a press.
Released == button # "none" /\ button' = "none"

\* What the file keeps of an item, with the item's identity.
Proj(its) ==
    [k \in 1..Len(its) |->
        [uid |-> its[k].uid, text |-> its[k].text,
         completed |-> its[k].completed]]

UidSeq(its) == [k \in 1..Len(its) |-> its[k].uid]

\* The list without its item at index i (0-based).
Without(its, i) ==
    [k \in 1..(Len(its) - 1) |-> IF k <= i THEN its[k] ELSE its[k + 1]]

\* Index (1-based) of the item with the given uid, 0 if there is none.
PosOfUid(its, u) ==
    IF \E k \in 1..Len(its) : its[k].uid = u
    THEN CHOOSE k \in 1..Len(its) : its[k].uid = u
    ELSE 0

\* C1: whenever the application is idle between events and its writes
\* succeed, the file holds exactly the serialisation of the in-memory list,
\* because every handler that changes the list saves it.
C1_FileMatchesList ==
    (~crashed /\ save_ok) => file = FileText(items)

\* The swipe begun by the current left press is still on the pressed item:
\* the last pointer motion was a horizontal drag and the gesture has not
\* turned into a pull-down.
SwipeOnPressed ==
    /\ button = "left"
    /\ press_uid # 0
    /\ is_swiping
    /\ ~is_pulling_down
    /\ ValidIndex(items, selected_index)
    /\ At(items, selected_index).uid = press_uid

\* C2: with at least two items, a left press on an item, a horizontal drag
\* leaving that item's swipe offset below -0.3 * W and a release remove
\* exactly that item: the other items keep their text, completed flag and
\* relative order.
C2_SwipeLeftDeletes ==
    [][(/\ SwipeOnPressed
        /\ Len(items) >= 2
        /\ 10 * At(items, selected_index).swipe_offset < -(3 * WinW)
        /\ Released)
        => /\ ~crashed'
           /\ Len(items') = Len(items) - 1
           /\ Proj(items') = Proj(Without(items, selected_index))]_vars

\* The pressed item has been dragged left past the threshold and the
\* release is still to come.
C2_Witness ==
    /\ SwipeOnPressed
    /\ Len(items) >= 2
    /\ 10 * At(items, selected_index).swipe_offset < -(3 * WinW)
    /\ events < MaxEvents

\* C3: a left press on an item, a horizontal drag leaving that item's swipe
\* offset above 0.3 * W and a release leave the item completed, whatever
\* its flag was before, and add, remove or move no item.
C3_SwipeRightCompletes ==
    [][(/\ SwipeOnPressed
        /\ 10 * At(items, selected_index).swipe_offset > 3 * WinW
        /\ Released)
        => /\ ~crashed'
           /\ UidSeq(items') = UidSeq(items)
           /\ \A k \in 1..Len(items) : items'[k].text = items[k].text
           /\ items'[selected_index + 1].completed]_vars

\* C4: a double click on an item that is not being edited (two left
\* press/release pairs on the same item without movement, the second
\* release reporting a click count above zero) changes the item's completed
\* flag exactly once and leaves no item in edit mode, whenever the click
\* timeout of the first click fires.
C4_DoubleClickToggles ==
    [][(/\ button = "left"
        /\ event_clicks > 0
        /\ fl_click_y # -1
        /\ first_press.uid # 0
        /\ ~first_press.editing
        /\ press_uid = first_press.uid
        /\ PosOfUid(items, first_press.uid) # 0
        /\ first_press' = first_press
        /\ Released)
        => /\ ~crashed'
           /\ PosOfUid(items', first_press.uid) # 0
           /\ items'[PosOfUid(items', first_press.uid)].completed
                 = ~first_press.completed
           /\ editing_index' = -1]_vars

\* C5: when the click timeout fires and starts an edit, the edited item is
\* the item that was displayed under the pointer at the press of that
\* click, whatever happened between the press and the timeout.
C5_ClickEditsPressedItem ==
    [][(/\ click_uid # 0
        /\ ~crashed'
        /\ editing_index' >= 0
        /\ editing_index' # editing_index
        /\ ClickTimeout)
        => /\ ValidIndex(items', editing_index')
           /\ At(items', editing_index').uid = click_uid]_vars


\* The text the editor holds.
EditorText == IF input_visible THEN input_value ELSE editing_text

\* The list once an edit in progress has been finished: the edited item
\* takes the editor's text, or is removed when that text is empty (a list
\* emptied that way gets one empty item).
AfterFinish ==
    IF ValidIndex(items, editing_index)
    THEN IF EditorText = <<>>
         THEN IF Len(items) = 1
              THEN <<[text |-> <<>>, completed |-> FALSE, swipe_offset |-> 0,
                      uid |-> 1]>>
              ELSE Without(items, editing_index)
         ELSE [items EXCEPT ![editing_index + 1].text = EditorText]
    ELSE items

\* What a release in pull-down mode does, "kept" being the existing items
\* it is to keep.
PullDownRelease(kept) ==
    IF 10 * pull_down_offset > 6 * item_height
    THEN /\ Len(items') = Len(kept) + 1
         /\ items'[1].text = <<>>
         /\ ~items'[1].completed
         /\ Proj(Tail(items')) = Proj(kept)
         /\ scroll_offset' = 0
         /\ ~is_pulling_down'
         /\ pull_down_offset' = 0
         /\ editing_index' = 0
         /\ input_visible'
    ELSE /\ Proj(items') = Proj(items)
         /\ ~is_pulling_down'
         /\ pull_down_offset' = 0

\* C6 as stated in the specification: a release in pull-down mode with pull_down_offset above
\* 0.6 * item_height inserts one new empty item at index 0, keeps every
\* existing item unchanged and in order, resets scroll_offset, leaves
\* pull-down mode and edits index 0; at or below the threshold it adds
\* nothing and leaves pull-down mode.
C6_PullDownAdds ==
    [][(is_pulling_down /\ Released)
        => (~crashed' /\ PullDownRelease(items))]_vars

\* C6 amended: as above, except that an edit in progress is finished
\* first, so the existing items are kept as finish_editing leaves them.
C6_PullDownAddsAfterFinish ==
    [][(is_pulling_down /\ Released)
        => /\ ~crashed'
           /\ PullDownRelease(IF 10 * pull_down_offset > 6 * item_height
                              THEN AfterFinish ELSE items)]_vars

\* A pull-down has added an item in front of the two initial ones.
C6_Witness ==
    /\ Len(items) = 3
    /\ UidSeq(items) = <<3, 1, 2>>
    /\ items[1].text = <<>>
    /\ editing_index = 0
    /\ input_visible
    /\ button = "none"
    /\ ~is_pulling_down

\* Two items have changed their relative order.
Reordered ==
    \E j, k \in 1..Len(items) :
        /\ j < k
        /\ PosOfUid(items', items[j].uid) # 0
        /\ PosOfUid(items', items[k].uid) # 0
        /\ PosOfUid(items', items[k].uid) < PosOfUid(items', items[j].uid)

\* C7: while a press is held, items change their order only when
\* can_reorder is set and the long-press timeout of that press has fired;
\* can_reorder is set by the long-press timeout only; and no long-press
\* timeout is pending once the press has been released.
C7_ReorderOnlyAfterLongPress ==
    [][/\ (button = "left" /\ button' = "left" /\ Reordered)
              => (can_reorder /\ long_press_fired)
       /\ (~can_reorder /\ can_reorder') => LongPressTimeout
       /\ button' = "none"
              => \A k \in 1..Len(timeouts') : timeouts'[k] # "long_press"]_vars

\* A reorder drag has put the second initial item before the first.
C7_Witness ==
    /\ UidSeq(items) = <<2, 1>>
    /\ can_reorder
    /\ long_press_fired
    /\ button = "left"


\* One of the three gesture modes is on.
ModeFlag == is_swiping \/ can_reorder \/ is_pulling_down

\* The items present before and after the step keep their completed flag.
FlagsKept ==
    \A k \in 1..Len(items) :
        PosOfUid(items', items[k].uid) # 0
            => items'[PosOfUid(items', items[k].uid)].completed
                   = items[k].completed

\* A release of a press during which a mode flag was set is not handled as
\* a click or a double click: no single click is recorded or scheduled, and
\* no completed flag changes unless the release ends a swipe.
ReleaseNotAClick ==
    (ModeFlag /\ Released)
        => \/ crashed'
           \/ /\ pending_click_index' = pending_click_index
              /\ timeouts' = RemoveTimeout(timeouts, "long_press")
              /\ is_swiping \/ FlagsKept

\* C8: no two of is_swiping, can_reorder and is_pulling_down are
\* true at once, and a press during which one of them became true is not
\* handled as a click or a double click on release.
C8_ModesExclusive ==
    [][/\ ~(is_swiping' /\ can_reorder')
       /\ ~(is_swiping' /\ is_pulling_down')
       /\ ~(can_reorder' /\ is_pulling_down')
       /\ ReleaseNotAClick]_vars

ProbeYs == {-61, -1, 0, 59, 60, 119, 120, 179, 180, 400}

\* C9: get_sorted_indices returns a permutation of the indices with every
\* not-completed item before every completed one and each group in physical
\* order; get_item_at_y maps y to the item at visual position
\* floor((y + scroll_offset) / item_height) and to -1 outside the list.
C9_SortedIndicesAndHitTest ==
    LET si == get_sorted_indices(items)
        n  == Len(items)
    IN  /\ Len(si) = n
        /\ {si[k] : k \in 1..Len(si)} = 0..(n - 1)
        /\ \A j, k \in 1..Len(si) :
              j < k => /\ At(items, si[j]).completed => At(items, si[k]).completed
                       /\ (At(items, si[j]).completed = At(items, si[k]).completed)
                              => si[j] < si[k]
        /\ \A y \in ProbeYs :
              LET p == (y + scroll_offset) \div item_height IN
              get_item_at_y(St, y) = IF p >= 0 /\ p < n THEN si[p + 1] ELSE -1

\* A completed item lies physically before a not-completed one and the
\* list is scrolled.
C9_Witness ==
    /\ scroll_offset > 0
    /\ \E j, k \in 1..Len(items) :
          j < k /\ items[j].completed /\ ~items[k].completed

\* The fields toggle_complete must leave alone.
ToggleFrame ==
    DOMAIN St \ {"items", "file", "file_exists", "save_ok", "save_called",
                 "error_display", "hide_timers"}

\* C10: toggle_complete(i) with a valid i inverts items[i].completed and
\* changes nothing else of the list or of the interaction state; with an
\* invalid i it changes nothing and does not write the file.
C10_ToggleComplete ==
    ~crashed =>
    \A i \in -1..Len(items) :
        LET t == toggle_complete(St, i, DefaultEnv) IN
        IF ValidIndex(items, i)
        THEN /\ Len(t.items) = Len(items)
             /\ \A k \in 1..Len(items) :
                   t.items[k] = IF k = i + 1
                                THEN [items[k] EXCEPT !.completed = ~items[k].completed]
                                ELSE items[k]
             /\ \A f \in ToggleFrame : t[f] = St[f]
             /\ t.save_called
        ELSE t = St /\ ~t.save_called

\* An item has been completed, and the file says so.
C10_Witness ==
    /\ \E k \in 1..Len(items) :
          items[k].completed /\ GetLines(file, <<>>)[k][3] = "1"
    /\ ~crashed


\* The items as the file keeps them: text and completed flag, in order.
Kept(its) ==
    [k \in 1..Len(its) |-> [text |-> its[k].text, completed |-> its[k].completed]]

\* The step is a successful save of the list.
Saved == SaveList /\ save_ok'

\* C11: the file save_to_file writes has exactly one line per item, in list
\* order, each 0|c|t with c = 1 for a completed item and 0 otherwise and t
\* the escaped text, and no escaped text holds a raw newline.
C11_OneLinePerItem ==
    [][Saved =>
        LET lines == GetLines(file', <<>>) IN
        /\ Len(lines) = Len(items)
        /\ \A k \in 1..Len(items) :
              /\ SubSeq(lines[k], 1, 4)
                    = <<"0", "|", IF items[k].completed THEN "1" ELSE "0", "|">>
              /\ SubSeq(lines[k], 5, Len(lines[k])) = escape_text(items[k].text)
              /\ \A j \in 1..Len(lines[k]) : lines[k][j] # "\n"
        /\ Len(SelectSeq(file', LAMBDA c : c = "\n")) = Len(items)]_vars

\* A list of two items has been saved, one of them with a newline in its
\* text.
C11_Witness ==
    /\ Len(items) = 2
    /\ \E k \in 1..2 : \E j \in 1..Len(items[k].text) : items[k].text[j] = "\n"
    /\ file_exists
    /\ save_ok
    /\ file = FileText(items)
    /\ file # <<>>


\* The file holds what save_to_file wrote for the list in memory.
FileHoldsList == file_exists /\ file = FileText(items)

\* C12: loading the file that save_to_file produced yields the same number
\* of items in the same order with the same texts and completed flags, for
\* texts with '|', backslashes, newlines, backslash-n and the empty text;
\* unescape_text(escape_text(t)) = t for every text t.
C12_RoundTrip ==
    [][(FileHoldsList /\ Startup)
        => /\ Kept(load_from_file(St).st.items) = Kept(items)
           /\ items # <<>> => Kept(items') = Kept(items)
           /\ \A k \in 1..Len(items) :
                 unescape_text(escape_text(items[k].text)) = items[k].text]_vars

\* A new process has loaded a list of two items whose first text is a
\* backslash followed by n.
C12_Witness ==
    /\ drag_start_x = PushX
    /\ Len(items) = 2
    /\ items[1].text = <<"\\", "n">>
    /\ items[2].completed
    /\ FileHoldsList

\* The sample items, as the file keeps them.
SampleItems ==
    [k \in 1..Len(SampleTexts) |-> [text |-> SampleTexts[k], completed |-> FALSE]]

SaveErrors == {"Failed to save file", "Error saving file"}

\* C13: every error message that is shown is eventually dismissed. While a
\* message is visible exactly one hide timer is pending, also when a
\* further show_error has replaced the message; when the timer fires the
\* message is no longer visible, its text is empty and no hide timer is
\* pending. (A process that was aborted shows nothing.)
C13_ErrorDismissed ==
    /\ [](/\ error_display.is_visible => hide_timers = 1
          /\ ~error_display.is_visible
                => (hide_timers = 0 /\ error_display.message = ""))
    /\ [][/\ (error_display' # error_display /\ error_display'.is_visible)
                => /\ error_display'.message \in SaveErrors
                   /\ hide_timers' = 1
          /\ HideErrorTimeout
                => /\ ~error_display'.is_visible
                   /\ error_display'.message = ""
                   /\ hide_timers' = 0]_vars
    /\ (error_display.is_visible ~> (~error_display.is_visible \/ crashed))

\* A save that could not open the file has put its message in place of
\* the message of an earlier save that failed while writing.
C13_Witness ==
    /\ error_display = [message |-> "Failed to save file", is_visible |-> TRUE]
    /\ hide_timers = 1
    /\ file = <<>>
    /\ ~save_ok
    /\ ~crashed


\* The handler calls that the current state admits.
Calls ==
    {c \in [h : {"push"}, b : Buttons, x : {PushX}, y : PushYs] : button = "none"}
    \cup {c \in [h : {"drag"}, b : {"left"}, x : MoveXs, y : MoveYs] :
             button = "left"}
    \cup {c \in [h : {"release"}, b : {button}, x : MoveXs, y : MoveYs] :
             button # "none"}
    \cup {c \in [h : {"Enter"}, b : {"none"}, x : {0}, y : {0}] : input_visible}
    \cup {c \in [h : {"Escape"}, b : {"none"}, x : {0}, y : {0}] :
             editing_index >= 0 /\ input_visible}
    \cup [h : {"Delete"}, b : {"none"}, x : {0}, y : {0}]
    \cup {c \in [h : {"click"}, b : {"none"}, x : {0}, y : {0}] :
             timeouts # <<>> /\ Head(timeouts) = "click"}

\* What the call leaves behind in environment e.
Handle(c, e) ==
    draw(CASE c.h = "push" -> handle_push(St, c.b, c.x, c.y, e)
           [] c.h = "drag" -> handle_drag(St, c.x, c.y, e)
           [] c.h = "release" -> handle_release(St, c.x, c.y, event_clicks, e)
           [] c.h = "Enter" -> input_callback(St, "Enter", e)
           [] c.h = "Escape" -> handle_keyboard(St, "Escape", e)
           [] c.h = "Delete" -> handle_keyboard(St, "Delete", e)
           [] OTHER -> click_timeout_cb([St EXCEPT !.timeouts = Tail(timeouts)], e))

\* The environments in which the call is worth comparing: those of an
\* out-of-bounds access only when the call makes one.
EnvsOf(c) ==
    IF Handle(c, DefaultEnv).ub_hit
    THEN {e \in Envs : e.io = "ok" /\ e.ub = "continue"}
    ELSE {DefaultEnv}

\* The result f of a failed save beside the result ok of the same call with
\* a successful save: only the file, the outcome of the write and the error
\* message differ.
SameButFile(f, ok) ==
    [f EXCEPT !.file = ok.file, !.file_exists = ok.file_exists,
              !.save_ok = ok.save_ok, !.error_display = ok.error_display,
              !.hide_timers = ok.hide_timers] = ok

\* C15: a failed save is reported and not retried. When a handler's
\* save_to_file cannot open or write the file, an error message is visible
\* and the list and every field of the interaction state (selected_index,
\* editing_index, scroll_offset among them) are what the same handler
\* leaves after a successful save; and the file is not written again by
\* the timers, scrolling or typing that follow.
C15_FailedSaveReported ==
    /\ [](~crashed =>
            \A c \in Calls :
                Handle(c, DefaultEnv).save_called =>
                    \A e \in EnvsOf(c), io \in {"open_fail", "write_fail"} :
                        LET ok == Handle(c, e)
                            f == Handle(c, [e EXCEPT !.io = io])
                        IN /\ f.save_called
                           /\ ~f.save_ok
                           /\ f.error_display.is_visible
                           /\ f.error_display.message \in SaveErrors
                           /\ f.hide_timers = 1
                           /\ f.file \in {file, <<>>}
                           /\ SameButFile(f, ok))
    /\ [][(HideErrorTimeout \/ LongPressTimeout \/ MouseWheelEv \/ TypeTextEv)
            => UNCHANGED <<file, file_exists, save_ok>>]_vars

\* The save of a pull-down's new item has failed while writing; the new
\* item is in the list and is being edited.
C15_Witness ==
    /\ ~save_ok
    /\ error_display = [message |-> "Error saving file", is_visible |-> TRUE]
    /\ Len(items) = 3
    /\ editing_index = 0
    /\ input_visible
    /\ file = <<>>


\* C16: whenever no pointer button is held every item's swipe_offset is 0,
\* and while a button is held at most the selected item has a non-zero
\* swipe_offset, for every sequence of press, drag and release events,
\* a swipe that turns into a pull-down included.
C16_SwipeOffsetTransient ==
    ~crashed =>
        \A k \in 1..Len(items) :
            items[k].swipe_offset # 0
                => (button # "none" /\ k - 1 = selected_index)

\* C18: after every event handler and timer callback selected_index is -1
\* or a valid index of items, also after finish_editing or Escape has
\* removed an item whose editor text is empty.
C18_SelectedIndexValid ==
    ~crashed => (selected_index = -1 \/ ValidIndex(items, selected_index))


\* C17: as the instructions drawn at the bottom of the window and the
\* fifth sample item say ("Swipe right to delete"), a release with the
\* pressed item's swipe offset above 0.3 * W deletes that item.
C17_SwipeRightDeletes ==
    [][(/\ SwipeOnPressed
        /\ 10 * At(items, selected_index).swipe_offset > 3 * WinW
        /\ Released)
        => /\ PosOfUid(items', press_uid) = 0
           /\ Len(items') = Len(items) - 1]_vars


\* The items other than the one with uid u keep their text, completed flag
\* and relative order over the step.
OthersKept(u) ==
    SelectSeq(Proj(items'), LAMBDA it : it.uid # u)
        = SelectSeq(Proj(items), LAMBDA it : it.uid # u)

\* C19: finish_editing affects only the item on which the edit was
\* started. With a non-empty editor text that item receives the text and
\* every other item is kept; with an empty text that item is removed and
\* every other item is kept; whatever gestures came between start_editing
\* and finish_editing, a long-press reorder of the edited item included.
C19_FinishEditsStartedItem ==
    [][(/\ edit_uid # 0
        /\ input_visible
        /\ Len(items) >= 2
        /\ KeyEnter)
        => /\ OthersKept(edit_uid)
           /\ IF input_value # <<>>
              THEN /\ PosOfUid(items', edit_uid) # 0
                   /\ items'[PosOfUid(items', edit_uid)].text = input_value
              ELSE /\ PosOfUid(items', edit_uid) = 0
                   /\ Len(items') = Len(items) - 1]_vars


\* C20: a right-button press on an item removes exactly the item displayed
\* under the pointer at the time of the press: that item is gone and every
\* other item remains, except that an item being edited with an empty
\* editor text is removed by the finish_editing the press causes. (The
\* list is long enough for one item to remain, so that no item is created
\* by the step.)
C20_RightClickDeletesPressed ==
    [][(/\ button = "none"
        /\ button' = "right"
        /\ Len(items) >= (IF edit_uid = 0 THEN 2 ELSE 3))
        => \A my \in PushYs :
              (Push("right", my) /\ UidAtY(my) \notin {0, edit_uid})
                  => /\ PosOfUid(items', UidAtY(my)) = 0
                     /\ \A k \in 1..Len(items) :
                           items[k].uid \notin {UidAtY(my), edit_uid}
                               => PosOfUid(items', items[k].uid) # 0]_vars


\* C21: Escape while editing cancels the edit. Afterwards the application
\* is not in edit mode and the list is as it was - same items, order,
\* stored texts and completed flags - except that the edited item is
\* removed if its stored text is empty; an item whose stored text is not
\* empty is neither removed nor changed. (With two items or more the list
\* need not be refilled.)
C21_EscapeCancelsEdit ==
    [][(/\ editing_index >= 0
        /\ input_visible
        /\ ValidIndex(items, editing_index)
        /\ Len(items) >= 2
        /\ KeyEscape)
        => /\ editing_index' = -1
           /\ ~input_visible'
           /\ Proj(items')
                 = IF At(items, editing_index).text = <<>>
                   THEN Proj(Without(items, editing_index))
                   ELSE Proj(items)]_vars


\* The step removes the only item of the list: Enter or Escape with an
\* empty editor on it, a right press on it, a release of a swipe left on
\* it, or the Delete key with it selected.
RemovesLastItem ==
    /\ Len(items) = 1
    /\ \/ /\ editing_index = 0 /\ input_visible /\ input_value = <<>>
          /\ KeyEnter \/ KeyEscape
       \/ /\ button = "none" /\ button' = "right"
          /\ \E my \in PushYs : UidAtY(my) # 0 /\ Push("right", my)
       \/ /\ SwipeOnPressed
          /\ 10 * At(items, selected_index).swipe_offset < -(3 * WinW)
          /\ Released
       \/ /\ selected_index = 0
          /\ ~(editing_index >= 0 /\ input_visible)
          /\ KeyDelete

\* C22: the list is never empty after construction and after every event
\* handler and timer callback; when a removal would empty it, a single item
\* with empty text is inserted and put into edit mode (editing_index = 0,
\* input widget shown).
C22_ListNeverEmpty ==
    /\ [](~crashed => Len(items) >= 1)
    /\ [][RemovesLastItem
            => /\ Len(items') = 1
               /\ items'[1].text = <<>>
               /\ ~items'[1].completed
               /\ editing_index' = 0
               /\ input_visible'
               /\ input_value' = <<>>]_vars

\* Both items have been deleted by right presses; the list has been
\* refilled with one empty item, which is being edited.
C22_Witness ==
    /\ Len(items) = 1
    /\ items[1].text = <<>>
    /\ items[1].uid = 1
    /\ editing_index = 0
    /\ input_visible
    /\ events = 3


\* C23: in every state between events editing_index is -1 or a valid index
\* of items, and the input widget is visible exactly when
\* editing_index >= 0; deleting the item being edited hides the widget.
C23_EditModeAgreesWithWidget ==
    ~crashed =>
        /\ editing_index = -1 \/ ValidIndex(items, editing_index)
        /\ input_visible <=> editing_index >= 0


\* The largest valid scroll offset of a list of n items.
MaxScroll(n) ==
    IF n * item_height - (WinH - 40) > 0 THEN n * item_height - (WinH - 40) ELSE 0

\* C24: after every event handler
\* 0 <= scroll_offset <= max(0, number of items * item_height - (H - 40)),
\* also after mouse-wheel events, add_item, delete_item and the removal of
\* an item by finish_editing or Escape with an empty editor text.
C24_ScrollOffsetInRange ==
    ~crashed => (0 <= scroll_offset /\ scroll_offset <= MaxScroll(Len(items)))


\* C25: in every reachable state 0 <= pull_down_offset <= 1.5 * item_height,
\* whatever the size of the pointer movement of a single drag event, and
\* pull_down_offset is 0 whenever is_pulling_down is false.
C25_PullDownOffsetBounded ==
    ~crashed =>
        /\ 0 <= pull_down_offset
        /\ 2 * pull_down_offset <= 3 * item_height
        /\ ~is_pulling_down => pull_down_offset = 0


\* Pending single-click timeouts.
ClickTimers(ts) == Len(SelectSeq(ts, LAMBDA cb : cb = "click"))

\* C26: after a left press at a position where get_item_at_y returns -1,
\* the following drag events and the release leave the list unchanged (no
\* item deleted, completed, reordered or given a swipe offset) and start
\* no click timer, whatever item an earlier interaction selected.
C26_GestureOnNoItem ==
    [][(/\ button = "left"
        /\ press_uid = 0
        /\ DragEv \/ Released)
        => /\ ~crashed'
           /\ items' = items
           /\ ClickTimers(timeouts') <= ClickTimers(timeouts)]_vars


\* C27: reorder_items(from, to) with both indices valid and different moves
\* the item at from to to, keeps the length of the list and the items, keeps
\* the relative order of all other items, and saves; with an invalid index
\* or from = to it changes nothing and does not save. During a reorder drag
\* selected_index always designates the item being dragged.
C27_ReorderMovesOneItem ==
    /\ [](~crashed =>
            \A from \in -1..Len(items), to \in -1..Len(items) :
                LET r == reorder_items(St, from, to, DefaultEnv) IN
                IF ValidIndex(items, from) /\ ValidIndex(items, to) /\ from # to
                THEN /\ Len(r.items) = Len(items)
                     /\ r.items[to + 1] = items[from + 1]
                     /\ Without(r.items, to) = Without(items, from)
                     /\ r.save_called
                     /\ r.file = FileText(r.items)
                ELSE r = St)
    /\ [][(/\ button = "left"
           /\ can_reorder
           /\ ValidIndex(items, selected_index)
           /\ DragEv)
            => /\ ValidIndex(items', selected_index')
               /\ At(items', selected_index').uid = At(items, selected_index).uid]_vars

\* The item added by a pull-down has been dragged from the first to the
\* last place of a list of three.
C27_Witness ==
    /\ UidSeq(items) = <<1, 2, 3>>
    /\ press_uid = 3
    /\ selected_index = 2
    /\ can_reorder
    /\ button = "left"
    /\ file = FileText(items)


\* C28: the Delete key, pressed while not editing, removes exactly the
\* item on which the most recent left-button press landed, provided that
\* item is still in the list, and removes nothing otherwise; after a
\* swipe-left deletion a following Delete removes no further item. (No
\* button is held; the removal of the only item, which refills the list,
\* is left aside.)
C28_DeleteKeyRemovesPressed ==
    [][(/\ ~(editing_index >= 0 /\ input_visible)
        /\ button = "none"
        /\ KeyDelete)
        => IF PosOfUid(items, last_press_uid) # 0
           THEN Len(items) >= 2
                   => Proj(items')
                         = Proj(Without(items, PosOfUid(items, last_press_uid) - 1))
           ELSE Proj(items') = Proj(items)]_vars


\* C29: load_from_file skips empty lines and lines with fewer than two
\* '|', ignores the first field, makes an item completed exactly when its
\* second field is the string 1, takes as text the unescaped remainder
\* after the second '|' (which may hold '|'), keeps the file's order, and
\* returns true exactly when an item was produced; the previous list is
\* cleared, and when the file opens but yields no item the start-up code
\* installs the sample items.
C29_LoadToleratesMalformed ==
    /\ [](\A row \in RawFiles :
            (file_exists /\ file = row.file) =>
                LET l == load_from_file(St) IN
                /\ Kept(l.st.items) = row.items
                /\ l.loaded = (row.items # <<>>)
                /\ [l.st EXCEPT !.items = items] = St
                /\ ~l.st.error_display.is_visible)
    /\ [][Startup =>
            \A row \in RawFiles :
                (file_exists /\ file = row.file) =>
                    Kept(items') = IF row.items = <<>> THEN SampleItems
                                   ELSE row.items]_vars

\* A new process has loaded one completed item with text a|b from a file
\* of two lines.
C29_Witness ==
    /\ drag_start_x = PushX
    /\ Kept(items) = <<[text |-> <<"a", "|", "b">>, completed |-> TRUE]>>
    /\ file_exists
    /\ Len(GetLines(file, <<>>)) = 2
    /\ file[1] = "7"

====
